---------------------------- MODULE Spec2Model ----------------------------
(***************************************************************************)
(* A model of the helpers of kent010341/angular-snippets:                  *)
(*   - computeSelectionTriStateByCompare / computeSelectionTriStateByKey   *)
(*     (src/utils/computeSelectionTriState.ts),                            *)
(*   - MockMorePipe.transform and createMock (src/unnamed/part_004, and    *)
(*     the earlier fixed-size MockMorePipe of src/unnamed/part_000),       *)
(*   - skipUntilNonNull (src/rxjs/operator/skipUntilNonNull.ts).           *)
(* Each helper is a component with its own variables and its own           *)
(* specification (SpecTri, SpecMock, SpecProxy, SpecSkip); while one       *)
(* component runs, the variables of the others keep their idle values.     *)
(***************************************************************************)
EXTENDS Integers, Sequences, FiniteSets, TLC

VARIABLES
    \* ---- computeSelectionTriState ----
    form,           \* "ByCompare" | "ByKey": which entry point was called
    cmp,            \* the compareFn argument: "default" (a === b) | "keyEq"
    mapper,         \* the stateMapper argument: "default" | "custom"
    allItems,       \* argument allItems
    selectedItems,  \* argument selectedItems
    idx,            \* position of the for..of loop over allItems (next item)
    flags,          \* the locals hasSelected / hasUnselected
    examined,       \* indices of allItems the loop has examined so far
    mapperArgs,     \* the arguments stateMapper was called with, in order
    triPc,          \* "idle" | "loop" | "returned"
    triResult,      \* the value returned (after stateMapper)
    \* ---- MockMorePipe.transform ----
    mmVersion,      \* "part_004" (targetSize, mockLabel, proxies) | "part_000" (TARGET_SIZE)
    mmValue,        \* argument value: an array [ref, elems]
    mmFields,       \* argument fieldsOrField: [kind, names]
    mmTarget,       \* argument targetSize
    mmLabel,        \* argument mockLabel
    mmInput,        \* the array the current call was given
    mmAcc,          \* the local `result` of case 2 while its loop runs
    mmPc,           \* "idle" | "ready" | "loop"
    mmOut,          \* the arrays returned by the calls made so far
    mmCases,        \* the case (1, 2 or 3) each call took
    mmPushes,       \* result.push(...value) executions of each call
    mmNextRef,      \* the identity the next allocated array gets
    \* ---- createMock ----
    pxProxy,        \* the proxy createMock(displayToken) returned
    pxCur,          \* the value the chain of operations has reached
    pxTrace,        \* the operations performed so far: [op, prop]
    pxKeys,         \* the results of the key enumerations so far
    pxPrims,        \* the results of the primitive coercions so far
    pxError,        \* whether an operation raised a TypeError
    \* ---- skipUntilNonNull ----
    skHasEmitted,   \* per operator instance: the closure variable hasEmitted
    skSubs,         \* the subscriptions: [op, received, delivered]
    \* ---- PureClickDirective ----
    startX,         \* the field startX
    startY,         \* the field startY
    moved,          \* the signal moved
    clickLog,       \* the events handled so far: [type, x, y, emitted]
    \* ---- IifChainBuilder ----
    cases,          \* the field cases: a list of [condition, result]
    elseCase,       \* the field elseCase
    elseCalled,     \* whether else(...) has been called on the builder
    built,          \* whether build() has returned the observable
    env,            \* what each condition function returns if called now
    buildEnv,       \* what the conditions would have returned when build() ran
    subCount,       \* the subscriptions made so far
    lastSub,        \* the latest subscription: [evaluated, outcome, value]
    \* ---- RangePipe ----
    rgStartOrStop,  \* the argument startOrStop
    rgStopGiven,    \* FALSE when the argument stop is undefined
    rgStop,         \* the argument stop (when given)
    rgStep,         \* the argument step (1 when omitted)
    rgI,            \* the loop variable i
    rgResult,       \* the local `result`, then the array returned
    rgPc            \* "call" | "loop" | "returned" | "threw"

triVars == <<form, cmp, mapper, allItems, selectedItems, idx, flags,
             examined, mapperArgs, triPc, triResult>>

mmVars == <<mmVersion, mmValue, mmFields, mmTarget, mmLabel, mmInput, mmAcc,
            mmPc, mmOut, mmCases, mmPushes, mmNextRef>>

pxVars == <<pxProxy, pxCur, pxTrace, pxKeys, pxPrims, pxError>>

skVars == <<skHasEmitted, skSubs>>

clickVars == <<startX, startY, moved, clickLog>>

iifVars == <<cases, elseCase, elseCalled, built, env, buildEnv, subCount, lastSub>>

rgVars == <<rgStartOrStop, rgStopGiven, rgStop, rgStep, rgI, rgResult, rgPc>>

vars == <<triVars, mmVars, pxVars, skVars, clickVars, iifVars, rgVars>>

\* What an action of one component leaves alone: the other components.
notTri == <<mmVars, pxVars, skVars, clickVars, iifVars, rgVars>>
notMock == <<triVars, pxVars, skVars, clickVars, iifVars, rgVars>>
notProxy == <<triVars, mmVars, skVars, clickVars, iifVars, rgVars>>
notSkip == <<triVars, mmVars, pxVars, clickVars, iifVars, rgVars>>
notClick == <<triVars, mmVars, pxVars, skVars, iifVars, rgVars>>
notIif == <<triVars, mmVars, pxVars, skVars, clickVars, rgVars>>
notRange == <<triVars, mmVars, pxVars, skVars, clickVars, iifVars>>

-----------------------------------------------------------------------------
(* Bounds of the model.                                                    *)
MaxLen == 3          \* longest allItems
MaxSel == 2          \* longest selectedItems
MaxValueLen == 3     \* longest value given to mockMore
MaxTarget == 5       \* largest targetSize given to mockMore
MaxFields == 2       \* longest list of field names given to mockMore
MaxChain == 3        \* longest chain of operations on a placeholder
MaxOps == 2          \* operator instances made by skipUntilNonNull()
MaxSubs == 2         \* subscriptions
MaxEmits == 2        \* values a source emits to one subscription
MaxEvents == 3       \* pointer events handled by the directive
MaxCases == 2        \* cases added to one builder
MaxSubscriptions == 2  \* subscriptions to the built observable
MaxRange == 3        \* start and stop of a range are in -MaxRange..MaxRange
MaxStep == 2         \* step of a range is in -MaxStep..MaxStep

\* All sequences over S of length at most n.
SeqUpTo(S, n) == UNION {[1..k -> S] : k \in 0..n}

-----------------------------------------------------------------------------
(* computeSelectionTriState.ts                                             *)

NaN == "NaN"

\* The items T: objects with an identity (id) and a key field.  Items 1 and
\* 2 are distinct objects with the same key; item 4 has the key NaN.
Items ==
    { [id |-> 1, key |-> "a"], [id |-> 2, key |-> "a"],
      [id |-> 3, key |-> "b"], [id |-> 4, key |-> NaN] }

\* JavaScript's === on keys (string | number): NaN is not equal to itself.
StrictEquals(x, y) == x = y /\ x # NaN

\* The equality of Set.prototype.has: SameValueZero, under which NaN equals NaN.
SameValueZero(x, y) == x = y

\* The extractor of the key form: item => item[keyOrExtractor].
extractor(item) == item.key

\* compareFn: the default (a, b) => a === b on objects (identity), or the
\* caller's (a, b) => k(a) === k(b).
compareFn(c, a, b) ==
    IF c = "default" THEN a.id = b.id
    ELSE StrictEquals(extractor(a), extractor(b))

\* selectedItems.some(selected => compareFn(item, selected))
IsSelectedByCompare(item, sel, c) ==
    \E j \in 1..Len(sel) : compareFn(c, item, sel[j])

\* Mutant: the last selected item is left out of the key set (off by one).
selectedKeys_DropLast(sel) == {extractor(sel[j]) : j \in 1..(Len(sel) - 1)}

\* new Set(selectedItems.map(extractor))
selectedKeys(sel) == {extractor(sel[j]) : j \in 1..Len(sel)}

\* selectedKeys.has(extractor(item))
IsSelectedByKey(item, sel) ==
    \E k \in selectedKeys(sel) : SameValueZero(k, extractor(item))

isSelected(f, c, item, sel) ==
    IF f = "ByCompare" THEN IsSelectedByCompare(item, sel, c)
    ELSE IsSelectedByKey(item, sel)

NoFlags == [hasSelected |-> FALSE, hasUnselected |-> FALSE]

\* Mutant: the flags are assigned from the current item instead of latched.
Mark_Assign(fl, s) == [hasSelected |-> s, hasUnselected |-> ~s]

\* if (isSelected) hasSelected = true; else hasUnselected = true;
Mark(fl, s) ==
    IF s THEN [fl EXCEPT !.hasSelected = TRUE]
    ELSE [fl EXCEPT !.hasUnselected = TRUE]

\* Mutant: no early return; the loop always runs to the end of allItems.
BothSeen_Never(fl) == FALSE

\* Mutant: the early return fires as soon as either flag is set.
BothSeen_Either(fl) == fl.hasSelected \/ fl.hasUnselected

\* if (hasSelected && hasUnselected) return stateMapper('indeterminate')
BothSeen(fl) == fl.hasSelected /\ fl.hasUnselected

\* Mutant: the two outcomes of the final ternary are swapped.
FinalState_Swapped(fl) == IF fl.hasSelected THEN "none" ELSE "all"

\* return hasSelected ? stateMapper('all') : stateMapper('none')
FinalState(fl) == IF fl.hasSelected THEN "all" ELSE "none"

\* stateMapper: the default (state) => state, or a caller's projection.
stateMapper(m, s) ==
    IF m = "default" THEN s
    ELSE CASE s = "all" -> "checked"
           [] s = "none" -> "unchecked"
           [] OTHER -> "mixed"

\* The whole loop as a function: the tri-state reached from position i.
RECURSIVE Scan(_, _, _, _, _, _)
Scan(f, c, all, sel, i, fl) ==
    IF i > Len(all) THEN FinalState(fl)
    ELSE LET fl2 == Mark(fl, isSelected(f, c, all[i], sel))
         IN  IF BothSeen(fl2) THEN "indeterminate"
             ELSE Scan(f, c, all, sel, i + 1, fl2)

computeSelectionTriStateByCompare(all, sel, c, m) ==
    stateMapper(m, Scan("ByCompare", c, all, sel, 1, NoFlags))

computeSelectionTriStateByKey(all, sel, m) ==
    stateMapper(m, Scan("ByKey", "default", all, sel, 1, NoFlags))

TriIdle ==
    /\ form = "none" /\ cmp = "none" /\ mapper = "none"
    /\ allItems = <<>> /\ selectedItems = <<>>
    /\ idx = 0 /\ flags = NoFlags /\ examined = {} /\ mapperArgs = <<>>
    /\ triPc = "idle" /\ triResult = "none"

\* A call of one of the two forms with arguments drawn from the bounded sets.
TriStart ==
    /\ form \in {"ByCompare", "ByKey"}
    /\ cmp \in {"default", "keyEq"}
    /\ form = "ByKey" => cmp = "default"
    /\ mapper \in {"default", "custom"}
    /\ allItems \in SeqUpTo(Items, MaxLen)
    /\ selectedItems \in SeqUpTo(Items, MaxSel)
    /\ idx = 1
    /\ flags = NoFlags
    /\ examined = {}
    /\ mapperArgs = <<>>
    /\ triPc = "loop"
    /\ triResult = "pending"

\* One iteration of `for (const item of allItems)`, with its early return.
TriIterate ==
    /\ triPc = "loop"
    /\ idx <= Len(allItems)
    /\ LET fl2 == Mark(flags, isSelected(form, cmp, allItems[idx], selectedItems))
       IN  /\ flags' = fl2
           /\ examined' = examined \cup {idx}
           /\ IF BothSeen(fl2)
              THEN /\ mapperArgs' = Append(mapperArgs, "indeterminate")
                   /\ triResult' = stateMapper(mapper, "indeterminate")
                   /\ triPc' = "returned"
                   /\ idx' = idx
              ELSE /\ idx' = idx + 1
                   /\ UNCHANGED <<mapperArgs, triResult, triPc>>
    /\ UNCHANGED <<form, cmp, mapper, allItems, selectedItems>>
    /\ UNCHANGED notTri

\* The loop is exhausted: return hasSelected ? 'all' : 'none' through stateMapper.
TriReturn ==
    /\ triPc = "loop"
    /\ idx > Len(allItems)
    /\ mapperArgs' = Append(mapperArgs, FinalState(flags))
    /\ triResult' = stateMapper(mapper, FinalState(flags))
    /\ triPc' = "returned"
    /\ UNCHANGED <<form, cmp, mapper, allItems, selectedItems, idx, flags, examined>>
    /\ UNCHANGED notTri

TriNext == TriIterate \/ TriReturn

-----------------------------------------------------------------------------
(* MockMorePipe (part_004; part_000 is its earlier, fixed-size version)    *)

\* private static readonly TARGET_SIZE = 100 (part_000)
TARGET_SIZE == 100

\* JavaScript values that appear in the arrays: numbers, strings and the
\* proxies of createMock, in one record shape.
Num(i) == [tag |-> "num", n |-> i, label |-> ""]
Str(t) == [tag |-> "str", n |-> 0, label |-> t]

\* createMock(displayToken): a new Proxy; ref is the identity `new Proxy` gives it.
createMock(displayToken, ref) == [tag |-> "mock", n |-> ref, label |-> displayToken]

\* The field names a caller may designate (keyof T); "" is the falsy key.
FieldNames == {"id", "profile", "address", ""}
Labels == {"mock", "dummy"}
Elems == {Num(1), Num(2)}

\* The fieldsOrField argument: omitted, a single name, or a list of names.
FieldArgs ==
    {[kind |-> "omitted", names |-> <<>>]}
    \cup {[kind |-> "one", names |-> <<f>>] : f \in FieldNames}
    \cup {[kind |-> "list", names |-> l] : l \in SeqUpTo(FieldNames, MaxFields)}

Truthy(name) == name # ""

\* Array.isArray(fieldsOrField) ? fieldsOrField : fieldsOrField ? [fieldsOrField] : []
NormalizeFields(arg) ==
    IF arg.kind = "list" THEN arg.names
    ELSE IF arg.kind = "one" /\ Truthy(arg.names[1]) THEN arg.names
    ELSE <<>>

\* Array.from({ length: n }, ...): ToLength clamps a negative length to 0.
ToLength(n) == IF n < 0 THEN 0 ELSE n

\* The last position of name f in the list fields (the assignment that stays).
LastPos(fields, f) ==
    CHOOSE j \in 1..Len(fields) :
        fields[j] = f /\ \A k \in (j + 1)..Len(fields) : fields[k] # f

\* const base = { id: i }; for (const f of fields) base[f] = createMock(mockLabel);
\* later assignments to the same key replace earlier ones.
MockRecord(i, fields, label) ==
    [f \in {"id"} \cup {fields[j] : j \in 1..Len(fields)} |->
        IF \E j \in 1..Len(fields) : fields[j] = f
        THEN createMock(label, i * Len(fields) + LastPos(fields, f))
        ELSE Num(i)]

\* part_000: field ? { id: i, [field]: 'dummy' } : { id: i }
DummyRecord(i, arg) ==
    IF arg.kind = "one" /\ Truthy(arg.names[1])
    THEN [f \in {"id", arg.names[1]} |-> IF f = arg.names[1] THEN Str("dummy") ELSE Num(i)]
    ELSE [f \in {"id"} |-> Num(i)]

\* Mutant: the records are numbered from 1.
EmptyCase_OneBased(version, arg, target, label) ==
    [k \in 1..ToLength(target) |->
        IF version = "part_004"
        THEN MockRecord(k, NormalizeFields(arg), label)
        ELSE DummyRecord(k, arg)]

\* Case 1: Array.from({ length: targetSize }, (_, i) => record i)
EmptyCase(version, arg, target, label) ==
    [k \in 1..ToLength(target) |->
        IF version = "part_004"
        THEN MockRecord(k - 1, NormalizeFields(arg), label)
        ELSE DummyRecord(k - 1, arg)]

\* Mutant: the loop condition is never true, so the single copy is returned.
KeepPushing_Never(acc, target) == FALSE

\* while (result.length < targetSize)
KeepPushing(acc, target) == Len(acc.elems) < target

\* Mutant: case 2 also taken when the array already has targetSize items.
TooSmall_OrEqual(len, target) == len <= target

\* if (currentLength < targetSize)
TooSmall(len, target) == len < target

\* Mutant: push is called with nothing to append, so the array never grows.
Push_Nothing(acc, value) == acc

\* Mutant: push appends the first item of value only.
Push_First(acc, value) == [acc EXCEPT !.elems = acc.elems \o <<value.elems[1]>>]

\* result.push(...value)
Push(acc, value) == [acc EXCEPT !.elems = acc.elems \o value.elems]

MockIdle ==
    /\ mmVersion = "none" /\ mmValue = [ref |-> 0, elems |-> <<>>]
    /\ mmFields = [kind |-> "omitted", names |-> <<>>]
    /\ mmTarget = 0 /\ mmLabel = "" /\ mmInput = [ref |-> 0, elems |-> <<>>]
    /\ mmAcc = [ref |-> 0, elems |-> <<>>]
    /\ mmPc = "idle" /\ mmOut = <<>> /\ mmCases = <<>> /\ mmPushes = <<>>
    /\ mmNextRef = 0

\* The pipe is about to be applied to a value; the arguments of part_004 are
\* drawn from the bounded sets, part_000 has a field and its fixed TARGET_SIZE.
MockStart ==
    /\ mmValue \in {[ref |-> 1, elems |-> e] : e \in SeqUpTo(Elems, MaxValueLen)}
    /\ \/ /\ mmVersion = "part_004"
          /\ mmFields \in FieldArgs
          /\ mmTarget \in (-1)..MaxTarget
          /\ mmLabel \in Labels
       \/ /\ mmVersion = "part_000"
          /\ mmFields \in {a \in FieldArgs : a.kind # "list"}
          /\ mmTarget = TARGET_SIZE
          /\ mmLabel = "dummy"
    /\ mmInput = mmValue
    /\ mmAcc = [ref |-> 0, elems |-> <<>>]
    /\ mmPc = "ready"
    /\ mmOut = <<>> /\ mmCases = <<>> /\ mmPushes = <<>>
    /\ mmNextRef = 2

mmArgsUnchanged ==
    /\ UNCHANGED <<mmVersion, mmValue, mmFields, mmTarget, mmLabel>>
    /\ UNCHANGED notMock

\* The value a call returns: recorded, and fed to the next application of the pipe.
Returns(arr, case, pushes) ==
    /\ mmOut' = Append(mmOut, arr)
    /\ mmCases' = Append(mmCases, case)
    /\ mmPushes' = Append(mmPushes, pushes)
    /\ mmInput' = arr
    /\ mmPc' = "ready"

\* transform(value, fieldsOrField, targetSize, mockLabel) up to its return or
\* to the head of the while loop of case 2.  It is applied at most twice: to
\* the value, then to its own result with the same arguments.
MMTransform ==
    /\ mmPc = "ready"
    /\ Len(mmOut) < 2
    /\ LET currentLength == Len(mmInput.elems)
       IN  IF currentLength = 0
           THEN /\ Returns([ref |-> mmNextRef,
                            elems |-> EmptyCase(mmVersion, mmFields, mmTarget, mmLabel)], 1, 0)
                /\ mmNextRef' = mmNextRef + 1
                /\ UNCHANGED mmAcc
           ELSE IF TooSmall(currentLength, mmTarget)
           THEN /\ mmAcc' = [ref |-> mmNextRef, elems |-> mmInput.elems]
                /\ mmNextRef' = mmNextRef + 1
                /\ mmPc' = "loop"
                /\ UNCHANGED <<mmOut, mmCases, mmPushes, mmInput>>
           ELSE /\ Returns(mmInput, 3, 0)
                /\ UNCHANGED <<mmAcc, mmNextRef>>
    /\ mmArgsUnchanged

\* One iteration of the while loop of case 2.
MMLoopPush ==
    /\ mmPc = "loop"
    /\ KeepPushing(mmAcc, mmTarget)
    /\ mmAcc' = Push(mmAcc, mmInput)
    /\ UNCHANGED <<mmInput, mmPc, mmOut, mmCases, mmPushes, mmNextRef>>
    /\ mmArgsUnchanged

\* The while loop ends: return result.
MMLoopReturn ==
    /\ mmPc = "loop"
    /\ ~KeepPushing(mmAcc, mmTarget)
    /\ Returns(mmAcc, 2, (Len(mmAcc.elems) \div Len(mmInput.elems)) - 1)
    /\ UNCHANGED <<mmAcc, mmNextRef>>
    /\ mmArgsUnchanged

MockNext == MMTransform \/ MMLoopPush \/ MMLoopReturn

-----------------------------------------------------------------------------
(* createMock (part_004): the proxy and the operations on it               *)

SymbolToPrimitive == "@@toPrimitive"

\* Property keys used on the placeholder: a name, an index, the well-known symbol.
Props == {"foo", "0", SymbolToPrimitive}

Undefined == [tag |-> "undefined", n |-> 0, label |-> ""]

\* () => displayToken, the function the get trap returns for Symbol.toPrimitive.
ToPrimitiveFn(displayToken) == [tag |-> "fn", n |-> 0, label |-> displayToken]

\* The proxy's target is the arrow function () => {}.
Target == "arrow"

\* Callable targets give the proxy a [[Call]] method (so the apply trap is used).
IsCallable(target) == target \in {"arrow", "function"}

\* The non-configurable own keys of the target, which an ownKeys trap result
\* must contain: `prototype` for a function expression, none for an arrow function.
NonConfigurableKeys(target) == IF target = "function" THEN {"prototype"} ELSE {}

\* Mutant: every access returns a new proxy instead of the same one.
get_Fresh(proxy, prop) ==
    IF prop = SymbolToPrimitive THEN ToPrimitiveFn(proxy.label)
    ELSE createMock(proxy.label, proxy.n + 1)

\* get: (_, prop) => prop === Symbol.toPrimitive ? () => displayToken : proxy
get(proxy, prop) ==
    IF prop = SymbolToPrimitive THEN ToPrimitiveFn(proxy.label)
    ELSE proxy

\* apply: () => proxy
apply(proxy) == proxy

\* ownKeys: () => []
ownKeys(proxy) == <<>>

\* ToPrimitive on the proxy: the method read under Symbol.toPrimitive is called
\* and must return a primitive; an object result is a TypeError.
ToPrimitive(proxy) ==
    LET exoticToPrim == get(proxy, SymbolToPrimitive)
    IN  IF exoticToPrim.tag = "fn" THEN Str(exoticToPrim.label)
        ELSE [tag |-> "TypeError", n |-> 0, label |-> ""]

ProxyIdle ==
    /\ pxProxy = Undefined /\ pxCur = Undefined /\ pxTrace = <<>>
    /\ pxKeys = {} /\ pxPrims = {} /\ pxError = FALSE

\* const p = createMock(displayToken)
ProxyStart ==
    /\ pxProxy \in {createMock(l, 1) : l \in Labels}
    /\ pxCur = pxProxy
    /\ pxTrace = <<>>
    /\ pxKeys = {} /\ pxPrims = {}
    /\ pxError = FALSE

PxCanStep == ~pxError /\ Len(pxTrace) < MaxChain

\* cur = cur[prop] on the placeholder.
PxGet(prop) ==
    /\ PxCanStep
    /\ pxCur.tag = "mock"
    /\ pxCur' = get(pxCur, prop)
    /\ pxTrace' = Append(pxTrace, [op |-> "get", prop |-> prop])
    /\ UNCHANGED <<pxProxy, pxKeys, pxPrims, pxError>>
    /\ UNCHANGED notProxy

\* cur = cur(): the apply trap on the proxy (its target being callable), or a
\* call of the function read under Symbol.toPrimitive.
PxApply ==
    /\ PxCanStep
    /\ pxCur.tag \in {"mock", "fn"}
    /\ IF pxCur.tag = "fn"
       THEN pxCur' = Str(pxCur.label) /\ UNCHANGED pxError
       ELSE IF IsCallable(Target)
       THEN pxCur' = apply(pxCur) /\ UNCHANGED pxError
       ELSE pxError' = TRUE /\ UNCHANGED pxCur
    /\ pxTrace' = Append(pxTrace, [op |-> "apply", prop |-> ""])
    /\ UNCHANGED <<pxProxy, pxKeys, pxPrims>>
    /\ UNCHANGED notProxy

\* Object.keys(cur) / for..in: the ownKeys trap, whose result must contain the
\* target's non-configurable keys.
PxOwnKeys ==
    /\ PxCanStep
    /\ pxCur.tag = "mock"
    /\ LET keys == ownKeys(pxCur)
       IN  IF NonConfigurableKeys(Target) \subseteq {keys[j] : j \in 1..Len(keys)}
           THEN pxKeys' = pxKeys \cup {keys} /\ UNCHANGED pxError
           ELSE pxError' = TRUE /\ UNCHANGED pxKeys
    /\ pxTrace' = Append(pxTrace, [op |-> "keys", prop |-> ""])
    /\ UNCHANGED <<pxProxy, pxCur, pxPrims>>
    /\ UNCHANGED notProxy

\* `${cur}`, String(cur), cur + '': coercion of the placeholder to a primitive.
PxCoerce ==
    /\ PxCanStep
    /\ pxCur.tag = "mock"
    /\ LET prim == ToPrimitive(pxCur)
       IN  IF prim.tag = "TypeError"
           THEN pxError' = TRUE /\ UNCHANGED pxPrims
           ELSE pxPrims' = pxPrims \cup {prim} /\ UNCHANGED pxError
    /\ pxTrace' = Append(pxTrace, [op |-> "coerce", prop |-> ""])
    /\ UNCHANGED <<pxProxy, pxCur, pxKeys>>
    /\ UNCHANGED notProxy

ProxyNext == (\E prop \in Props : PxGet(prop)) \/ PxApply \/ PxOwnKeys \/ PxCoerce

-----------------------------------------------------------------------------
(* skipUntilNonNull.ts                                                     *)

\* The values a source emits: null, undefined and two other values.
SourceValues == {"null", "undefined", "a", "b"}

\* value != null (loose inequality: false for null and for undefined)
NotNullish(value) == value \notin {"null", "undefined"}

\* The predicate given to filter: whether value passes, and hasEmitted after it.
Predicate(hasEmitted, value) ==
    IF hasEmitted THEN [pass |-> TRUE, hasEmitted |-> TRUE]
    ELSE IF NotNullish(value) THEN [pass |-> TRUE, hasEmitted |-> TRUE]
    ELSE [pass |-> FALSE, hasEmitted |-> FALSE]

\* No operator instance has been made and nothing is subscribed.
SkipIdle == skHasEmitted = <<>> /\ skSubs = <<>>

\* The component starts before the first skipUntilNonNull() call.
SkipStart == SkipIdle

\* const op = skipUntilNonNull(): `let hasEmitted = false` and the returned closure.
SkCreate ==
    /\ Len(skHasEmitted) < MaxOps
    /\ skHasEmitted' = Append(skHasEmitted, FALSE)
    /\ UNCHANGED skSubs
    /\ UNCHANGED notSkip

\* source.pipe(op).subscribe(...): the closure pipes the source through filter;
\* hasEmitted is the operator instance's, not the subscription's.
SkSubscribe(op) ==
    /\ Len(skSubs) < MaxSubs
    /\ skSubs' = Append(skSubs, [op |-> op, received |-> <<>>, delivered |-> <<>>])
    /\ UNCHANGED skHasEmitted
    /\ UNCHANGED notSkip

\* The source of subscription s emits value: the filter predicate decides.
SkNext(s, value) ==
    /\ Len(skSubs[s].received) < MaxEmits
    /\ LET op == skSubs[s].op
           r == Predicate(skHasEmitted[op], value)
       IN  /\ skHasEmitted' = [skHasEmitted EXCEPT ![op] = r.hasEmitted]
           /\ skSubs' = [skSubs EXCEPT
                 ![s].received = Append(@, value),
                 ![s].delivered = IF r.pass THEN Append(@, value) ELSE @]
    /\ UNCHANGED notSkip

SkipNext ==
    \/ SkCreate
    \/ \E op \in 1..Len(skHasEmitted) : SkSubscribe(op)
    \/ \E s \in 1..Len(skSubs), value \in SourceValues : SkNext(s, value)

-----------------------------------------------------------------------------
(* PureClickDirective (part_001)                                           *)

\* readonly threshold = signal(4)
threshold == 4

\* clientX / clientY of the events: on the start, at the threshold, beyond it.
Coords == {0, 4, 5}

Abs(n) == IF n < 0 THEN -n ELSE n

\* dx > this.threshold() || dy > this.threshold()
Exceeds(x, y, sx, sy) == Abs(x - sx) > threshold \/ Abs(y - sy) > threshold

\* The directive as constructed: startX = 0, startY = 0, moved = signal(false).
ClickStart == startX = 0 /\ startY = 0 /\ moved = FALSE /\ clickLog = <<>>

ClickIdle == ClickStart

Logged(type, x, y, emitted) ==
    /\ Len(clickLog) < MaxEvents
    /\ clickLog' = Append(clickLog, [type |-> type, x |-> x, y |-> y, emitted |-> emitted])
    /\ UNCHANGED notClick

\* onPointerDown(event)
onPointerDown(x, y) ==
    /\ startX' = x
    /\ startY' = y
    /\ moved' = FALSE
    /\ Logged("pointerdown", x, y, 0)

\* onPorinterMove(event)
onPorinterMove(x, y) ==
    /\ IF moved THEN UNCHANGED moved
       ELSE moved' = Exceeds(x, y, startX, startY)
    /\ UNCHANGED <<startX, startY>>
    /\ Logged("pointermove", x, y, 0)

\* onPointerUp(event): this.pureClick.emit(event) unless moved
onPointerUp(x, y) ==
    /\ UNCHANGED <<startX, startY, moved>>
    /\ Logged("pointerup", x, y, IF ~moved THEN 1 ELSE 0)

ClickNext ==
    \E x \in Coords, y \in Coords :
        onPointerDown(x, y) \/ onPorinterMove(x, y) \/ onPointerUp(x, y)

-----------------------------------------------------------------------------
(* IifChainBuilder (iifChain.ts)                                           *)

\* The condition functions given to case(); what each returns is read from env.
Conditions == {"c1", "c2"}

\* Results (T | Observable<T>): plain values, null among them, and an
\* observable that emits a value.
Plain(v) == [kind |-> "value", v |-> v]
Obs(v) == [kind |-> "observable", v |-> v]
Null == Plain("null")
Results == {Plain("x"), Null, Obs("y")}

\* private elseCase: T | Observable<T> | null = null
NoElse == Null

\* toObservable(value): isObservable(value) ? value : of(value)
toObservable(value) == IF value.kind = "observable" THEN value ELSE Obs(value.v)

\* Mutant: the loop does not return at the first true condition; the last
\* case whose condition is true wins.
RECURSIVE SelectCase_Last(_, _, _, _, _)
SelectCase_Last(cs, e, i, evaluated, hit) ==
    IF i > Len(cs) THEN [evaluated |-> evaluated, hit |-> hit]
    ELSE SelectCase_Last(cs, e, i + 1, Append(evaluated, cs[i].condition),
                         IF e[cs[i].condition] THEN i ELSE hit)

\* for (const { condition, result } of this.cases) if (condition()) return ...
\* The conditions called, in order, and the index of the case returned (0: none).
RECURSIVE SelectCase(_, _, _, _, _)
SelectCase(cs, e, i, evaluated, hit) ==
    IF i > Len(cs) THEN [evaluated |-> evaluated, hit |-> 0]
    ELSE IF e[cs[i].condition]
    THEN [evaluated |-> Append(evaluated, cs[i].condition), hit |-> i]
    ELSE SelectCase(cs, e, i + 1, Append(evaluated, cs[i].condition), hit)

\* if (this.elseCase !== null)
HasElse(e) == e # Null

\* The factory given to defer(), run at each subscription: the observable it
\* returns is subscribed to and emits its value; a throw reaches the
\* subscriber as an error.
Factory(cs, el, e) ==
    LET sel == SelectCase(cs, e, 1, <<>>, 0)
    IN  IF sel.hit # 0
        THEN [evaluated |-> sel.evaluated, outcome |-> "next",
              value |-> toObservable(cs[sel.hit].result).v]
        ELSE IF HasElse(el)
        THEN [evaluated |-> sel.evaluated, outcome |-> "next",
              value |-> toObservable(el).v]
        ELSE [evaluated |-> sel.evaluated, outcome |-> "error",
              value |-> "No condition matched and no else case provided."]

NoSub == [evaluated |-> <<>>, outcome |-> "none", value |-> ""]

\* iifChain(): new IifChainBuilder()
IifStart ==
    /\ cases = <<>>
    /\ elseCase = NoElse
    /\ elseCalled = FALSE
    /\ built = FALSE
    /\ env \in [Conditions -> BOOLEAN]
    /\ buildEnv = env
    /\ subCount = 0
    /\ lastSub = NoSub

IifIdle ==
    /\ cases = <<>> /\ elseCase = NoElse /\ elseCalled = FALSE /\ built = FALSE
    /\ env = [c \in Conditions |-> FALSE] /\ buildEnv = env
    /\ subCount = 0 /\ lastSub = NoSub

\* case(condition, result): this.cases.push({ condition, result })
IifCase(condition, result) ==
    /\ Len(cases) < MaxCases
    /\ cases' = Append(cases, [condition |-> condition, result |-> result])
    /\ UNCHANGED <<elseCase, elseCalled, built, env, buildEnv, subCount, lastSub>>
    /\ UNCHANGED notIif

\* else(result): this.elseCase = result
IifElse(result) ==
    /\ elseCase' = result
    /\ elseCalled' = TRUE
    /\ UNCHANGED <<cases, built, env, buildEnv, subCount, lastSub>>
    /\ UNCHANGED notIif

\* build(): return defer(() => ...); nothing is evaluated yet.
IifBuild ==
    /\ ~built
    /\ built' = TRUE
    /\ buildEnv' = env
    /\ UNCHANGED <<cases, elseCase, elseCalled, env, subCount, lastSub>>
    /\ UNCHANGED notIif

\* The state the condition functions read changes (e.g. `age`).
IifEnvChange(e) ==
    /\ e # env
    /\ env' = e
    /\ UNCHANGED <<cases, elseCase, elseCalled, built, buildEnv, subCount, lastSub>>
    /\ UNCHANGED notIif

\* observable$.subscribe(...): defer runs the factory now.
IifSubscribe ==
    /\ built
    /\ subCount < MaxSubscriptions
    /\ subCount' = subCount + 1
    /\ lastSub' = Factory(cases, elseCase, env)
    /\ UNCHANGED <<cases, elseCase, elseCalled, built, env, buildEnv>>
    /\ UNCHANGED notIif

IifNext ==
    \/ \E c \in Conditions, r \in Results : IifCase(c, r)
    \/ \E r \in Results : IifElse(r)
    \/ IifBuild
    \/ \E e \in [Conditions -> BOOLEAN] : IifEnvChange(e)
    \/ IifSubscribe

-----------------------------------------------------------------------------
(* RangePipe (iifChain.ts)                                                 *)

RangeNumbers == (-MaxRange)..MaxRange
Steps == (-MaxStep)..MaxStep

\* Array.from({ length: n }, (_, i) => i)
ArrayFromLength(n) == [k \in 1..ToLength(n) |-> k - 1]

\* Mutant: both loops also take the value equal to stop.
Continue_Inclusive(j, stp, st) == IF st > 0 THEN j <= stp ELSE j >= stp

\* The loop conditions: i < stop when step > 0, i > stop otherwise.
Continue(j, stp, st) == IF st > 0 THEN j < stp ELSE j > stp

\* The arguments of one call of transform; the loop has not begun.
RangeFresh == rgI = 0 /\ rgResult = <<>> /\ rgPc = "call"

\* transform(stop) or transform(start, stop, step = 1)
RangeStart ==
    /\ rgStartOrStop \in RangeNumbers
    /\ rgStopGiven \in BOOLEAN
    /\ IF rgStopGiven
       THEN rgStop \in RangeNumbers /\ rgStep \in Steps
       ELSE rgStop = 0 /\ rgStep = 1
    /\ RangeFresh

RangeIdle ==
    /\ rgStartOrStop = 0 /\ rgStopGiven = FALSE /\ rgStop = 0 /\ rgStep = 1
    /\ RangeFresh

rgArgsUnchanged == UNCHANGED <<rgStartOrStop, rgStopGiven, rgStop, rgStep>>

\* if (stop === undefined) return Array.from({ length: startOrStop }, ...)
RangeSingle ==
    /\ rgPc = "call" /\ ~rgStopGiven
    /\ rgResult' = ArrayFromLength(rgStartOrStop)
    /\ rgPc' = "returned"
    /\ UNCHANGED rgI
    /\ rgArgsUnchanged /\ UNCHANGED notRange

\* if (step === 0) throw new Error('Step cannot be zero')
RangeThrow ==
    /\ rgPc = "call" /\ rgStopGiven /\ rgStep = 0
    /\ rgPc' = "threw"
    /\ UNCHANGED <<rgI, rgResult>>
    /\ rgArgsUnchanged /\ UNCHANGED notRange

\* const result = []; for (let i = start; ...
RangeEnter ==
    /\ rgPc = "call" /\ rgStopGiven /\ rgStep # 0
    /\ rgI' = rgStartOrStop
    /\ rgResult' = <<>>
    /\ rgPc' = "loop"
    /\ rgArgsUnchanged /\ UNCHANGED notRange

\* result.push(i); i += step
RangePush ==
    /\ rgPc = "loop" /\ Continue(rgI, rgStop, rgStep)
    /\ rgResult' = Append(rgResult, rgI)
    /\ rgI' = rgI + rgStep
    /\ UNCHANGED rgPc
    /\ rgArgsUnchanged /\ UNCHANGED notRange

\* return result
RangeReturn ==
    /\ rgPc = "loop" /\ ~Continue(rgI, rgStop, rgStep)
    /\ rgPc' = "returned"
    /\ UNCHANGED <<rgI, rgResult>>
    /\ rgArgsUnchanged /\ UNCHANGED notRange

RangeNext == RangeSingle \/ RangeThrow \/ RangeEnter \/ RangePush \/ RangeReturn

-----------------------------------------------------------------------------
(* The specifications: one per component.                                  *)

TriInit == TriStart /\ MockIdle /\ ProxyIdle /\ SkipIdle /\ ClickIdle /\ IifIdle /\ RangeIdle
SpecTri == TriInit /\ [][TriNext]_vars

MockInit == MockStart /\ TriIdle /\ ProxyIdle /\ SkipIdle /\ ClickIdle /\ IifIdle /\ RangeIdle
SpecMock == MockInit /\ [][MockNext]_vars

\* transform is synchronous code on one thread: once called it runs each of
\* its steps, and the pipe is applied whenever the template is evaluated.
FairSpecMock == MockInit /\ [][MockNext]_vars /\ WF_vars(MockNext)

ProxyInit == ProxyStart /\ TriIdle /\ MockIdle /\ SkipIdle /\ ClickIdle /\ IifIdle /\ RangeIdle
SpecProxy == ProxyInit /\ [][ProxyNext]_vars

SkipInit == SkipStart /\ TriIdle /\ MockIdle /\ ProxyIdle /\ ClickIdle /\ IifIdle /\ RangeIdle
SpecSkip == SkipInit /\ [][SkipNext]_vars

ClickInit == ClickStart /\ TriIdle /\ MockIdle /\ ProxyIdle /\ SkipIdle /\ IifIdle /\ RangeIdle
SpecClick == ClickInit /\ [][ClickNext]_vars

IifInit == IifStart /\ TriIdle /\ MockIdle /\ ProxyIdle /\ SkipIdle /\ ClickIdle /\ RangeIdle
SpecIif == IifInit /\ [][IifNext]_vars

RangeInit ==
    RangeStart /\ TriIdle /\ MockIdle /\ ProxyIdle /\ SkipIdle /\ ClickIdle /\ IifIdle
SpecRange == RangeInit /\ [][RangeNext]_vars

-----------------------------------------------------------------------------
(* Properties of computeSelectionTriState (checked under SpecTri).         *)

\* The equality notion the caller chose, stated on its own: identity for the
\* default comparator, the caller's comparator, or equality of keys as the
\* key set decides it.
ChosenEqual(a, b) ==
    CASE form = "ByKey" -> a.key = b.key
      [] cmp = "default" -> a.id = b.id
      [] OTHER -> a.key = b.key /\ a.key # NaN

Matched(item) == \E j \in 1..Len(selectedItems) : ChosenEqual(item, selectedItems[j])

SomeMatched == \E i \in 1..Len(allItems) : Matched(allItems[i])
SomeUnmatched == \E i \in 1..Len(allItems) : ~Matched(allItems[i])

\* The tri-state handed to stateMapper by the call that returned.
TriStateOf == mapperArgs[Len(mapperArgs)]

Perms(n) == {p \in [1..n -> 1..n] : \A i, j \in 1..n : p[i] = p[j] => i = j}
Permute(s, p) == [i \in 1..Len(s) |-> s[p[i]]]

\* The function the call computes, on any arguments.
TriStateFn(f, c, all, sel) ==
    IF f = "ByCompare" THEN computeSelectionTriStateByCompare(all, sel, c, "default")
    ELSE computeSelectionTriStateByKey(all, sel, "default")

\* C1: when at least one item of allItems matches a selected item and at
\* least one matches none, the call returns 'indeterminate', and so does the
\* call on every permutation of allItems.
C1_MixedIsIndeterminate ==
    (triPc = "returned" /\ SomeMatched /\ SomeUnmatched) =>
        /\ TriStateOf = "indeterminate"
        /\ \A p \in Perms(Len(allItems)) :
              TriStateFn(form, cmp, Permute(allItems, p), selectedItems) = "indeterminate"

\* Witness of C1: a mixed allItems of three items whose unmatched item comes last.
C1_Witness ==
    /\ triPc = "returned"
    /\ Len(allItems) = 3
    /\ Matched(allItems[1]) /\ Matched(allItems[2]) /\ ~Matched(allItems[3])
    /\ TriStateOf = "indeterminate"

\* C2 as stated: whenever every item of allItems matches some selected item,
\* the result is 'all' (the empty allItems included).
C2_AllMatchedIsAll_AsStated ==
    (triPc = "returned" /\ ~SomeUnmatched) => TriStateOf = "all"

\* C2, amended: for every NON-EMPTY allItems in which every item matches some
\* selected item, the result is 'all'.
C2_AllMatchedIsAll ==
    (triPc = "returned" /\ Len(allItems) > 0 /\ ~SomeUnmatched) => TriStateOf = "all"

\* Witness of C2: two or more items, all matched, result 'all'.
C2_Witness ==
    /\ triPc = "returned"
    /\ Len(allItems) >= 2
    /\ ~SomeUnmatched
    /\ TriStateOf = "all"

\* C3: the result is 'none' exactly when no item of allItems matches any
\* selected item; an empty allItems and an empty selectedItems both give 'none'.
C3_NoneIffNoMatch ==
    triPc = "returned" =>
        /\ (TriStateOf = "none") <=> ~SomeMatched
        /\ Len(allItems) = 0 => TriStateOf = "none"
        /\ Len(selectedItems) = 0 => TriStateOf = "none"

\* Witness of C3: non-empty allItems and selectedItems with no match at all.
C3_Witness ==
    /\ triPc = "returned"
    /\ Len(allItems) >= 2 /\ Len(selectedItems) >= 1
    /\ ~SomeMatched
    /\ TriStateOf = "none"

\* The result the other form gives on the same arguments, with the comparator
\* (a, b) => k(a) === k(b) standing for the key extractor k.
OtherFormResult ==
    IF form = "ByKey"
    THEN computeSelectionTriStateByCompare(allItems, selectedItems, "keyEq", mapper)
    ELSE computeSelectionTriStateByKey(allItems, selectedItems, mapper)

KeyCall == form = "ByKey" \/ cmp = "keyEq"

HasNaNKey(s) == \E i \in 1..Len(s) : extractor(s[i]) = NaN

\* C4 as stated: for every allItems, selectedItems and key extractor k the key
\* form and the comparator form with (a, b) => k(a) === k(b) return the same.
C4_FormsAgree_AsStated ==
    (triPc = "returned" /\ KeyCall) => triResult = OtherFormResult

\* C4, amended: the two forms return the same unless NaN is the key of both an
\* item of allItems and an item of selectedItems.
C4_FormsAgree ==
    (triPc = "returned" /\ KeyCall /\ ~(HasNaNKey(allItems) /\ HasNaNKey(selectedItems)))
        => triResult = OtherFormResult

\* Witness of C4: the key form returns 'indeterminate' on three items, one of
\* which matches by key an object that is not itself selected.
C4_Witness ==
    /\ triPc = "returned" /\ form = "ByKey"
    /\ Len(allItems) = 3
    /\ ~(HasNaNKey(allItems) /\ HasNaNKey(selectedItems))
    /\ TriStateOf = "indeterminate"
    /\ \E i \in 1..Len(allItems) :
          /\ Matched(allItems[i])
          /\ \A j \in 1..Len(selectedItems) : selectedItems[j].id # allItems[i].id

-----------------------------------------------------------------------------
(* Properties of MockMorePipe.transform (checked under SpecMock).          *)

CeilDiv(a, b) == (a + b - 1) \div b

FirstOut == mmOut[1]
SecondOut == mmOut[2]
ValueLen == Len(mmValue.elems)

\* C5: a non-empty value shorter than targetSize is returned as whole copies
\* of itself: ceil(targetSize / length) * length items, at least targetSize
\* and fewer than targetSize + length, item j being value[j mod length].
C5_WholeCopies ==
    (Len(mmOut) >= 1 /\ ValueLen > 0 /\ ValueLen < mmTarget) =>
        /\ Len(FirstOut.elems) = CeilDiv(mmTarget, ValueLen) * ValueLen
        /\ Len(FirstOut.elems) >= mmTarget
        /\ Len(FirstOut.elems) < mmTarget + ValueLen
        /\ \A j \in 0..(Len(FirstOut.elems) - 1) :
              FirstOut.elems[j + 1] = mmValue.elems[(j % ValueLen) + 1]

\* Witness of C5: a value of two different items whose copies overshoot targetSize.
C5_Witness ==
    /\ Len(mmOut) >= 1 /\ mmVersion = "part_004"
    /\ ValueLen >= 2 /\ mmValue.elems[1] # mmValue.elems[2]
    /\ ValueLen < mmTarget
    /\ Len(FirstOut.elems) > mmTarget

\* The field names the caller designated, as given.
Designated == {mmFields.names[j] : j \in 1..Len(mmFields.names)}

IsPlaceholder(v, label) == v.tag = "mock" /\ v.label = label

EmptyCall == Len(mmOut) >= 1 /\ mmVersion = "part_004" /\ ValueLen = 0

\* C6 as stated, on the positive targetSize values alone: for an empty value
\* the result has exactly targetSize records; record i has id = i and exactly
\* one more field per designated field name, each a placeholder built from
\* mockLabel, and no other field.
C6_EmptyGivesRecords_AsStated ==
    (EmptyCall /\ mmTarget >= 1) =>
        /\ Len(FirstOut.elems) = mmTarget
        /\ \A k \in 1..Len(FirstOut.elems) :
              LET rec == FirstOut.elems[k]
              IN  /\ DOMAIN rec = {"id"} \cup Designated
                  /\ rec["id"] = Num(k - 1)
                  /\ \A f \in Designated \ {"id"} : IsPlaceholder(rec[f], mmLabel)

\* The designated names that take effect: a single name that is falsy ('')
\* is treated as no name at all.
Effective ==
    IF mmFields.kind = "one" /\ mmFields.names[1] = "" THEN {} ELSE Designated

\* C6, amended: for an empty value and targetSize >= 0 the result has exactly
\* targetSize records (none when targetSize < 0); the fields of record i are
\* id and the designated names (a single name '' counting as omitted), every
\* designated field, one named id included, holds a placeholder built from
\* mockLabel, and id = i unless id itself is designated.
C6_EmptyGivesRecords ==
    EmptyCall =>
        /\ Len(FirstOut.elems) = (IF mmTarget >= 0 THEN mmTarget ELSE 0)
        /\ \A k \in 1..Len(FirstOut.elems) :
              LET rec == FirstOut.elems[k]
              IN  /\ DOMAIN rec = {"id"} \cup Effective
                  /\ "id" \notin Effective => rec["id"] = Num(k - 1)
                  /\ \A f \in Effective : IsPlaceholder(rec[f], mmLabel)

\* Witness of C6: three or more records with two designated fields besides id.
C6_Witness ==
    /\ EmptyCall
    /\ Len(FirstOut.elems) >= 3
    /\ Cardinality(Effective \ {"id"}) = 2
    /\ mmLabel = "dummy"
    /\ DOMAIN FirstOut.elems[3] = {"id"} \cup Effective

\* C7: a non-empty value with at least targetSize items is returned as it is:
\* the same array (identity), the same items in the same order.
C7_SufficientIsSame ==
    (Len(mmOut) >= 1 /\ ValueLen > 0 /\ ValueLen >= mmTarget) =>
        /\ FirstOut.ref = mmValue.ref
        /\ FirstOut.elems = mmValue.elems
        /\ mmCases[1] = 3 /\ mmPushes[1] = 0

\* Witness of C7: a value of exactly targetSize items comes back as itself.
C7_Witness ==
    /\ Len(mmOut) >= 1
    /\ ValueLen >= 2 /\ ValueLen = mmTarget
    /\ FirstOut = mmValue

\* C8: applying the pipe again, with the same arguments, to its own result
\* gives the same items; when the first result is not empty the second
\* application returns that very array without copying (case 3).
C8_Idempotent ==
    Len(mmOut) = 2 =>
        /\ SecondOut.elems = FirstOut.elems
        /\ Len(FirstOut.elems) > 0 =>
              /\ SecondOut.ref = FirstOut.ref
              /\ mmCases[2] = 3

\* Witness of C8: the first application replicated the value, the second
\* returned the replicated array.
C8_Witness ==
    /\ Len(mmOut) = 2
    /\ mmCases[1] = 2 /\ mmPushes[1] >= 2
    /\ SecondOut = FirstOut

-----------------------------------------------------------------------------
(* Properties of createMock (checked under SpecProxy).                     *)

\* Every operation so far was a property access, an invocation, a key
\* enumeration or a coercion, the accesses using keys of the set allowed.
ChainOver(allowed) ==
    \A i \in 1..Len(pxTrace) : pxTrace[i].op = "get" => pxTrace[i].prop \in allowed

\* The first k operations accessed no Symbol.toPrimitive.
PlainUpTo(k) ==
    \A i \in 1..k : pxTrace[i].op = "get" => pxTrace[i].prop # SymbolToPrimitive

Absorbed ==
    /\ pxCur = pxProxy
    /\ ~pxError
    /\ pxKeys \subseteq {<<>>}
    /\ pxPrims \subseteq {Str(pxProxy.label)}

\* C9 as stated: after any sequence of property/index accesses and
\* invocations the value reached is the same placeholder, nothing raised,
\* key enumerations gave the empty list and coercions gave the label.
C9_Absorbing_AsStated == ChainOver(Props) => Absorbed

\* C9, amended: the same, for accesses with any key other than
\* Symbol.toPrimitive; the access of Symbol.toPrimitive returns a function
\* that is not the placeholder and whose call returns the label.
C9_Absorbing ==
    /\ ChainOver(Props \ {SymbolToPrimitive}) => Absorbed
    /\ (/\ Len(pxTrace) >= 1
        /\ pxTrace[Len(pxTrace)] = [op |-> "get", prop |-> SymbolToPrimitive]
        /\ PlainUpTo(Len(pxTrace) - 1))
       => pxCur = ToPrimitiveFn(pxProxy.label)

\* Witness of C9: an access, an invocation and a coercion in a row, still on
\* the placeholder, the coercion having given the label.
C9_Witness ==
    /\ Len(pxTrace) = 3
    /\ pxTrace[1] = [op |-> "get", prop |-> "foo"]
    /\ pxTrace[2].op = "apply"
    /\ pxTrace[3].op = "coerce"
    /\ pxCur = pxProxy
    /\ pxPrims = {Str("dummy")}

-----------------------------------------------------------------------------
(* Properties of skipUntilNonNull (checked under SpecSkip).                *)

\* What a subscription is to deliver of the values it received: everything
\* from its first non-null, non-undefined value on.
RECURSIVE SkipLeadingNullish(_)
SkipLeadingNullish(values) ==
    IF values = <<>> THEN <<>>
    ELSE IF NotNullish(Head(values)) THEN values
    ELSE SkipLeadingNullish(Tail(values))

\* C10: every subscription, a second one through the same operator instance
\* included, delivers exactly the values from its own first non-null value
\* on, in source order.
C10_SkipsPerSubscription ==
    \A s \in 1..Len(skSubs) :
        skSubs[s].delivered = SkipLeadingNullish(skSubs[s].received)

-----------------------------------------------------------------------------
(* Properties of PureClickDirective (checked under SpecClick).             *)

\* The index of the most recent pointerdown before event k (0 when there is none).
LastDown(k) ==
    LET downs == {d \in 1..(k - 1) : clickLog[d].type = "pointerdown"}
    IN  IF downs = {} THEN 0 ELSE CHOOSE d \in downs : \A e \in downs : e <= d

\* The pointerup at k ends an interaction in which no pointermove went beyond
\* the threshold (on either axis) from the position of its pointerdown.
PureClickAt(k) ==
    LET d == LastDown(k)
    IN  /\ d # 0
        /\ \A m \in (d + 1)..(k - 1) :
              clickLog[m].type = "pointermove" =>
                  ~Exceeds(clickLog[m].x, clickLog[m].y, clickLog[d].x, clickLog[d].y)

-----------------------------------------------------------------------------
(* iifChain: what a subscription evaluates and receives                    *)

\* The first position of cs whose condition holds under e; 0 when none does.
FirstTrue(cs, e) ==
    IF \E i \in 1..Len(cs) : e[cs[i].condition]
    THEN CHOOSE i \in 1..Len(cs) :
            /\ e[cs[i].condition]
            /\ \A j \in 1..(i - 1) : ~e[cs[j].condition]
    ELSE 0

\* The conditions of the first n cases, in the order they were added.
ConditionsUpTo(cs, n) == [i \in 1..n |-> cs[i].condition]

\* What a subscriber receives from a result: the value itself, or what the
\* observable given as the result emits.
Received(r) == r.v

Subscribing == subCount' = subCount + 1

\* C12: at each subscription the conditions are called with the values they
\* have at that moment, in the order the cases were added; the result of the
\* first case whose condition is true is emitted and no condition after that
\* case is called.
C12_FirstTrueCaseAtSubscription ==
    [][Subscribing =>
        LET k == FirstTrue(cases, env)
        IN  /\ lastSub'.evaluated =
                    ConditionsUpTo(cases, IF k = 0 THEN Len(cases) ELSE k)
            /\ k # 0 => /\ lastSub'.outcome = "next"
                        /\ lastSub'.value = Received(cases[k].result)]_vars

\* A subscription took the first of two cases and called only its condition,
\* although that condition was false when build() ran.
C12_Witness ==
    /\ subCount >= 1
    /\ Len(cases) = 2
    /\ cases[1].condition # cases[2].condition
    /\ cases[1].result # cases[2].result
    /\ env[cases[1].condition] /\ env[cases[2].condition]
    /\ ~buildEnv[cases[1].condition]
    /\ lastSub.evaluated = <<cases[1].condition>>
    /\ lastSub.outcome = "next"
    /\ lastSub.value = Received(cases[1].result)

\* C13: when no condition is true at a subscription, the subscriber receives
\* the fallback r if else(r) was called, whatever r is, and gets an error
\* only if else was never called.
C13_FallbackWheneverElseCalled ==
    [][(Subscribing /\ FirstTrue(cases, env) = 0) =>
        IF elseCalled
        THEN lastSub'.outcome = "next" /\ lastSub'.value = Received(elseCase)
        ELSE lastSub'.outcome = "error"]_vars

-----------------------------------------------------------------------------
(* RangePipe: the sequences returned                                      *)

\* The values start, start + step, start + 2 step, ... that lie before stop
\* (below it when step > 0, above it when step < 0), in that order.
Before(v, stp, st) == IF st > 0 THEN v < stp ELSE v > stp
Terms(start, stp, st) ==
    {k \in 0..(2 * MaxRange + 2) :
        \A m \in 0..k : Before(start + m * st, stp, st)}
Progression(start, stp, st) ==
    [k \in 1..Cardinality(Terms(start, stp, st)) |-> start + (k - 1) * st]

\* 0, 1, ..., stop - 1; empty when stop <= 0.
UpTo(stp) == IF stp <= 0 THEN <<>> ELSE [k \in 1..stp |-> k - 1]

\* C14: transform(start, stop, step) returns start, start + step, ... up to
\* but not including stop, ascending for step > 0 and descending for
\* step < 0, and raises an error exactly when step = 0; transform(stop)
\* alone returns 0 .. stop - 1, empty when stop <= 0.
C14_RangeMatchesLoop ==
    /\ rgPc = "threw" <=> (rgStopGiven /\ rgStep = 0 /\ rgPc # "call")
    /\ (rgPc = "returned" /\ rgStopGiven) =>
            rgResult = Progression(rgStartOrStop, rgStop, rgStep)
    /\ (rgPc = "returned" /\ ~rgStopGiven) => rgResult = UpTo(rgStartOrStop)

\* A descending range whose next value would be stop itself has returned.
C14_Witness ==
    /\ rgPc = "returned" /\ rgStopGiven
    /\ rgStep < -1
    /\ Len(rgResult) >= 2
    /\ rgResult[Len(rgResult)] + rgStep = rgStop

-----------------------------------------------------------------------------
(* Tri-state: how far the scan goes and how often stateMapper is called    *)

\* Positions 1..p of allItems hold a matching and a non-matching item.
MixedWithin(p) ==
    /\ \E i \in 1..p : Matched(allItems[i])
    /\ \E i \in 1..p : ~Matched(allItems[i])

\* The position at which the scan must end: the first one by which both kinds
\* of item have been seen, or the last one when that never happens.
StopPoint ==
    IF MixedWithin(Len(allItems))
    THEN CHOOSE p \in 1..Len(allItems) : MixedWithin(p) /\ ~MixedWithin(p - 1)
    ELSE Len(allItems)

\* C15: in both forms the scan ends as soon as one matching and one
\* non-matching item have been seen, no later item of allItems is examined,
\* and stateMapper is applied exactly once per call, to the final tri-state.
C15_ShortCircuitAndOneMapping ==
    /\ examined \subseteq 1..StopPoint
    /\ triPc = "loop" => mapperArgs = <<>>
    /\ triPc = "returned" =>
        /\ examined = 1..StopPoint
        /\ Len(mapperArgs) = 1
        /\ mapperArgs[1] = (IF MixedWithin(StopPoint) THEN "indeterminate"
                            ELSE IF SomeMatched THEN "all" ELSE "none")
        /\ triResult = stateMapper(mapper, mapperArgs[1])

\* A key-form call over three items returned after examining two of them,
\* with a caller's stateMapper applied once.
C15_Witness ==
    /\ triPc = "returned"
    /\ form = "ByKey" /\ mapper = "custom"
    /\ Len(allItems) = 3
    /\ examined = {1, 2}
    /\ mapperArgs = <<"indeterminate">>
    /\ triResult = "mixed"

-----------------------------------------------------------------------------
(* mockMore: non-positive targetSize, and termination                      *)

\* A call with targetSize <= 0 never reaches the while loop; once it has
\* returned, the result is empty for an empty value and the value itself
\* otherwise.
NonPositiveTarget ==
    mmTarget <= 0 =>
        /\ mmPc # "loop"
        /\ Len(mmOut) >= 1 =>
            /\ mmCases[1] # 2 /\ mmPushes[1] = 0
            /\ IF ValueLen = 0
               THEN FirstOut.elems = <<>>
               ELSE FirstOut.ref = mmValue.ref /\ FirstOut.elems = mmValue.elems

\* C16: for targetSize <= 0 mockMore returns without entering the
\* replication loop, the empty sequence for an empty value and the value
\* itself otherwise; and for every targetSize a call that is made returns,
\* the loop of case 2 being left after finitely many pushes.
C16_Terminates ==
    /\ []NonPositiveTarget
    /\ <>(Len(mmOut) >= 1)
    /\ (mmPc = "loop") ~> (mmPc = "ready")

\* A call with a negative targetSize on a non-empty value has returned the
\* value itself through case 3.
C16_Witness ==
    /\ Len(mmOut) >= 1
    /\ mmTarget < 0
    /\ ValueLen > 0
    /\ mmCases[1] = 3
    /\ FirstOut = mmValue

====
